---- MODULE Spec2Model ----
(***************************************************************************)
(* State-machine model of r_server.py: the workspace reference, the files  *)
(* kept under the workspace, and the tools that act on them.  Every tool   *)
(* is one action; the record it returns (or the exception it raises) is    *)
(* kept in the variable call together with the temporary files it created  *)
(* and the subprocesses or containers it started.                          *)
(***************************************************************************)
EXTENDS Integers, Sequences, FiniteSets, TLC

VARIABLES
    MOUNTED_DIRECTORY,  \* the module global: None or the mounted path
    r_workspace,        \* the directories that hold an r_workspace subdirectory
    uploaded,           \* the files under some r_workspace: <<dir, name>> -> file
    tempFiles,          \* the temporary files and directories that exist
    now,                \* the host clock, in ticks
    call,               \* the last tool invocation and how it ended
    done,               \* the uploads that succeeded, oldest first (history)
    threads             \* the requests in flight that overlap: id -> its frame

vars == <<MOUNTED_DIRECTORY, r_workspace, uploaded, tempFiles, now, call,
          done, threads>>

(***************************************************************************)
(* Bounds of the model.                                                    *)
(***************************************************************************)
MaxTime == 2            \* the clock stops advancing here
TicksPerSecond == 2     \* clock ticks in one second of the formatted time

(***************************************************************************)
(* Strings are sequences of one-character strings.                         *)
(***************************************************************************)
RECURSIVE StartsWith(_, _)
StartsWith(s, pre) ==
    IF pre = <<>> THEN TRUE
    ELSE IF s = <<>> THEN FALSE
    ELSE Head(s) = Head(pre) /\ StartsWith(Tail(s), Tail(pre))

\* Python's `sub in s`
RECURSIVE Contains(_, _)
Contains(s, sub) ==
    IF StartsWith(s, sub) THEN TRUE
    ELSE IF s = <<>> THEN FALSE
    ELSE Contains(Tail(s), sub)

\* str.lower() on the letters the model uses
LowerChar(c) ==
    CASE c = "C" -> "c"
      [] c = "S" -> "s"
      [] c = "V" -> "v"
      [] OTHER -> c

Lower(s) == [i \in 1..Len(s) |-> LowerChar(s[i])]

\* the index of the last c in s, 0 when there is none (str.rfind, 1-based)
RECURSIVE RFind(_, _)
RFind(s, c) ==
    IF s = <<>> THEN 0
    ELSE IF s[Len(s)] = c THEN Len(s)
    ELSE RFind(SubSeq(s, 1, Len(s) - 1), c)

\* PurePath.suffix of a name without separators
Suffix(name) ==
    LET i == RFind(name, ".")
    IN  IF 1 < i /\ i < Len(name) THEN SubSeq(name, i, Len(name)) ELSE <<>>

(***************************************************************************)
(* Paths and the host's directories.  A path is [abs, parts]; the model's  *)
(* host has no symbolic links, so Path.resolve() makes a path absolute     *)
(* against the current directory and removes "." and "..".                 *)
(***************************************************************************)
None == <<>>
Some(x) == <<x>>

Cwd == [abs |-> TRUE, parts |-> <<"srv">>]

RECURSIVE Normalize(_, _)
Normalize(parts, acc) ==
    IF parts = <<>> THEN acc
    ELSE IF Head(parts) = "." THEN Normalize(Tail(parts), acc)
    ELSE IF Head(parts) = ".."
         THEN Normalize(Tail(parts),
                        IF acc = <<>> THEN acc ELSE SubSeq(acc, 1, Len(acc) - 1))
    ELSE Normalize(Tail(parts), Append(acc, Head(parts)))

Resolve(p) ==
    [abs |-> TRUE,
     parts |-> Normalize(IF p.abs THEN p.parts ELSE Cwd.parts \o p.parts, <<>>)]

is_absolute(p) == p.abs

\* the directories and the regular file of the host
DataDir == [abs |-> TRUE, parts |-> <<"data">>]
WorkDir == [abs |-> TRUE, parts |-> <<"work">>]
ReadOnlyDir == [abs |-> TRUE, parts |-> <<"ro">>]
SecretDir == [abs |-> TRUE, parts |-> <<"secret">>]
NotesFile == [abs |-> TRUE, parts |-> <<"notes.txt">>]

HostDirs == {Cwd, DataDir, WorkDir, ReadOnlyDir, SecretDir}
is_dir(p) == p \in HostDirs
exists(p) == p \in HostDirs \cup {NotesFile}
ReadAccess(p) == p \in {Cwd, DataDir, WorkDir, ReadOnlyDir, NotesFile}    \* os.access(p, R_OK)
WriteAccess(p) == p \in {Cwd, DataDir, WorkDir}

\* the regular files that lie directly in a directory: name -> file
CsvA == <<"a", ".", "c", "s", "v">>
RootFile == [bytes |-> [len |-> 7, tag |-> "root"], mtime |-> 0]
XlsS == <<"s", ".", "x", "l", "s">>
RootFiles(dir) ==
    IF dir = DataDir THEN <<[name |-> CsvA, file |-> RootFile]>>
    ELSE IF dir = Cwd THEN <<[name |-> XlsS, file |-> RootFile]>>
    ELSE <<>>

(***************************************************************************)
(* The record of an invocation: the tool, its arguments (and, with them,   *)
(* what the environment chose for the interpreter or container it ran),    *)
(* the exception that left the tool or "none", the record returned, the    *)
(* subprocesses and containers started, and the number of temporary files  *)
(* and directories created.                                                *)
(***************************************************************************)
Returned(op, args, ret, procs, temps) ==
    [op |-> op, args |-> args, raised |-> "none", ret |-> ret,
     procs |-> procs, temps |-> temps]

Raised(op, args, exc, procs, temps) ==
    [op |-> op, args |-> args, raised |-> exc, ret |-> [success |-> FALSE],
     procs |-> procs, temps |-> temps]

(***************************************************************************)
(* mount_directory and get_working_directory                               *)
(***************************************************************************)
get_working_directory ==
    IF MOUNTED_DIRECTORY # None THEN MOUNTED_DIRECTORY[1] ELSE Cwd

\* Path.mkdir(exist_ok=True) of dir/r_workspace succeeds
MkdirOk(dir) == dir \in r_workspace \/ WriteAccess(dir)

\* the checks of mount_directory, in the order of the code: the message of
\* the first failing check, "" when all pass
MountCheck(directory_path, mount_path) ==
    IF ~is_absolute(mount_path) THEN "Path must be absolute"
    ELSE IF ~exists(mount_path) THEN "Directory does not exist"
    ELSE IF ~is_dir(mount_path) THEN "Path is not a directory"
    ELSE IF ~ReadAccess(mount_path) THEN "No read permission for directory"
    ELSE ""

\* (mutant) the global is left as it was
MountAssignKept(mount_path) == MOUNTED_DIRECTORY

\* (mutant) the global is assigned only while it is unset
MountAssignOnce(mount_path) ==
    IF MOUNTED_DIRECTORY = None THEN Some(mount_path) ELSE MOUNTED_DIRECTORY

\* the global is assigned once the checks have passed, before the mkdir
MountAssign(mount_path) == Some(mount_path)

\* the record of a successful mount, lines 171-179
MountedRecord(mount_path) ==
    [success |-> TRUE,
     message |-> "Directory mounted successfully",
     mounted_path |-> mount_path,
     workspace_path |-> <<mount_path, "r_workspace">>,
     total_files |-> Len(RootFiles(mount_path)) + 1]

mount_directory(directory_path) ==
    LET mount_path == Resolve(directory_path)
        msg == MountCheck(directory_path, mount_path)
        args == [directory_path |-> directory_path]
    IN  IF msg # ""
        THEN /\ call' = Returned("mount_directory", args,
                                 [success |-> FALSE, message |-> msg], <<>>, 0)
             /\ UNCHANGED <<MOUNTED_DIRECTORY, r_workspace, uploaded, tempFiles, now>>
        ELSE /\ MOUNTED_DIRECTORY' = MountAssign(mount_path)
             /\ IF MkdirOk(mount_path)
                THEN /\ r_workspace' = r_workspace \cup {mount_path}
                     /\ call' = Returned("mount_directory", args,
                                          MountedRecord(mount_path), <<>>, 0)
                ELSE /\ r_workspace' = r_workspace
                     /\ call' = Returned("mount_directory", args,
                            [success |-> FALSE,
                             message |-> "Failed to mount directory"], <<>>, 0)
             /\ UNCHANGED <<uploaded, tempFiles, now>>

(***************************************************************************)
(* upload_file                                                             *)
(***************************************************************************)
\* a base64 payload: whether it decodes, and the bytes it decodes to (their
\* length and an identity)
Payload(valid, len, tag) == [valid |-> valid, data |-> [len |-> len, tag |-> tag]]

\* base64.b64decode: the decoded bytes, None when the text does not decode
b64decode(file_content) ==
    IF file_content.valid THEN Some(file_content.data) ELSE None

max_size == 10 * 1024 * 1024

\* (mutant) the separator test forgets the backslash
TraversalNameNoBackslash(filename) ==
    \/ filename = <<>>
    \/ Contains(filename, <<".", ".">>)
    \/ Contains(filename, <<"/">>)

\* the first test of upload_file, on the filename as given
TraversalName(filename) ==
    \/ filename = <<>>
    \/ Contains(filename, <<".", ".">>)
    \/ Contains(filename, <<"/">>)
    \/ Contains(filename, <<"\\">>)

\* re.sub(r'[<>:"|?*]', '_', filename)
IllegalChars == {"<", ">", ":", "\"", "|", "?", "*"}
Sanitize(filename) ==
    [i \in 1..Len(filename) |->
        IF filename[i] \in IllegalChars THEN "_" ELSE filename[i]]

allowed_extensions ==
    { <<".", "x", "l", "s", "x">>, <<".", "x", "l", "s">>, <<".", "c", "s", "v">>,
      <<".", "t", "x", "t">>, <<".", "t", "s", "v">>, <<".", "j", "s", "o", "n">> }

\* (mutant) the limit itself is refused
TooLargeInclusive(file_size) == file_size >= max_size

TooLarge(file_size) == file_size > max_size

\* (mutant) the overwrite flag is not looked at
RefusedAlways(file_path, overwrite) == file_path \in DOMAIN uploaded

\* file_path.exists() and not overwrite
Refused(file_path, overwrite) == file_path \in DOMAIN uploaded /\ ~overwrite

\* Path.write_bytes: the file holds exactly the given bytes afterwards
write_bytes(files, file_path, file_data) ==
    (file_path :> [bytes |-> file_data, mtime |-> now]) @@ files

UploadFail(args, name, msg) ==
    Returned("upload_file", args,
             [success |-> FALSE, filename |-> name, message |-> msg], <<>>, 0)

upload_file(file_content, filename, overwrite) ==
    LET args == [file_content |-> file_content, filename |-> filename,
                 overwrite |-> overwrite]
        clean == Sanitize(filename)
        file_ext == Lower(Suffix(clean))
        decoded == b64decode(file_content)
        base_dir == get_working_directory
        file_path == <<base_dir, clean>>
    IN  IF TraversalName(filename)
        THEN /\ call' = UploadFail(args, filename,
                                   "Invalid filename. No path traversal allowed.")
             /\ UNCHANGED <<MOUNTED_DIRECTORY, r_workspace, uploaded, tempFiles, now>>
        ELSE IF file_ext \notin allowed_extensions
        THEN /\ call' = UploadFail(args, clean, "File type not allowed")
             /\ UNCHANGED <<MOUNTED_DIRECTORY, r_workspace, uploaded, tempFiles, now>>
        ELSE IF decoded = None
        THEN /\ call' = UploadFail(args, clean, "Invalid base64 content")
             /\ UNCHANGED <<MOUNTED_DIRECTORY, r_workspace, uploaded, tempFiles, now>>
        ELSE IF TooLarge(decoded[1].len)
        THEN /\ call' = UploadFail(args, clean, "File too large. Maximum size: 10MB")
             /\ UNCHANGED <<MOUNTED_DIRECTORY, r_workspace, uploaded, tempFiles, now>>
        ELSE IF ~MkdirOk(base_dir)
        THEN \* the mkdir raises; the outer handler answers
             /\ call' = UploadFail(args, clean, "Upload failed")
             /\ UNCHANGED <<MOUNTED_DIRECTORY, r_workspace, uploaded, tempFiles, now>>
        ELSE IF Refused(file_path, overwrite)
        THEN /\ r_workspace' = r_workspace \cup {base_dir}
             /\ call' = UploadFail(args, clean,
                            "File already exists. Use overwrite=true to replace it.")
             /\ UNCHANGED <<MOUNTED_DIRECTORY, uploaded, tempFiles, now>>
        ELSE /\ r_workspace' = r_workspace \cup {base_dir}
             /\ uploaded' = write_bytes(uploaded, file_path, decoded[1])
             /\ call' = Returned("upload_file", args,
                            [success |-> TRUE, filename |-> clean,
                             message |-> "File uploaded successfully",
                             path |-> file_path,
                             size_bytes |-> uploaded'[file_path].bytes.len,
                             extension |-> file_ext], <<>>, 0)
             /\ UNCHANGED <<MOUNTED_DIRECTORY, tempFiles, now>>

(***************************************************************************)
(* list_files                                                              *)
(***************************************************************************)
\* a glob pattern against a file name; "*" is the only wildcard modelled
RECURSIVE GlobMatch(_, _)
GlobMatch(pat, name) ==
    IF pat = <<>> THEN name = <<>>
    ELSE IF Head(pat) = "*"
         THEN GlobMatch(Tail(pat), name)
                \/ (name # <<>> /\ GlobMatch(pat, Tail(name)))
    ELSE name # <<>> /\ Head(name) = Head(pat) /\ GlobMatch(Tail(pat), Tail(name))

Star(ext) == <<"*">> \o ext

\* type_patterns.get(file_type, [pattern])
TypePatterns(file_type, pattern) ==
    CASE file_type = "excel" -> <<Star(<<".", "x", "l", "s", "x">>), Star(<<".", "x", "l", "s">>)>>
      [] file_type = "csv" -> <<Star(<<".", "c", "s", "v">>), Star(<<".", "t", "s", "v">>)>>
      [] file_type = "text" -> <<Star(<<".", "t", "x", "t">>)>>
      [] OTHER -> <<pattern>>

RECURSIVE SetToSeq(_)
SetToSeq(S) ==
    IF S = {} THEN <<>>
    ELSE LET x == CHOOSE y \in S : TRUE IN <<x>> \o SetToSeq(S \ {x})

Reverse(q) == [i \in 1..Len(q) |-> q[Len(q) + 1 - i]]

\* the regular files of base/r_workspace, in the order the directory yields them
WorkspaceFiles(base, rev) ==
    LET names == SetToSeq({k[2] : k \in {k \in DOMAIN uploaded : k[1] = base}})
        listed == [i \in 1..Len(names) |->
                      [name |-> names[i], file |-> uploaded[<<base, names[i]>>]]]
    IN  IF rev THEN Reverse(listed) ELSE listed

\* the entry list_files builds for one file, lines 358-367
Entry(f, tag) ==
    [name |-> f.name,
     size_bytes |-> f.file.bytes.len,
     modified |-> f.file.mtime \div TicksPerSecond,
     extension |-> Suffix(f.name),
     directory |-> tag]

RECURSIVE ScanFiles(_, _, _)
ScanFiles(files, pat, tag) ==
    IF files = <<>> THEN <<>>
    ELSE (IF GlobMatch(pat, Head(files).name) THEN <<Entry(Head(files), tag)>> ELSE <<>>)
            \o ScanFiles(Tail(files), pat, tag)

RECURSIVE ScanDir(_, _, _)
ScanDir(files, patterns, tag) ==
    IF patterns = <<>> THEN <<>>
    ELSE ScanFiles(files, Head(patterns), tag) \o ScanDir(files, Tail(patterns), tag)

\* (mutant) the first entry of a name is kept
RECURSIVE UniqueFirst(_, _)
UniqueFirst(entries, acc) ==
    IF entries = <<>> THEN acc
    ELSE LET e == Head(entries)
             seen == \E i \in 1..Len(acc) : acc[i].name = e.name
         IN  UniqueFirst(Tail(entries), IF seen THEN acc ELSE Append(acc, e))

\* unique_files[f["name"]] = f: a name keeps the place of its first entry and
\* the value of its last
RECURSIVE Unique(_, _)
Unique(entries, acc) ==
    IF entries = <<>> THEN acc
    ELSE LET e == Head(entries)
             seen == \E i \in 1..Len(acc) : acc[i].name = e.name
         IN  Unique(Tail(entries),
                    IF seen
                    THEN [i \in 1..Len(acc) |-> IF acc[i].name = e.name THEN e ELSE acc[i]]
                    ELSE Append(acc, e))

\* (mutant) the older entry comes first
RECURSIVE InsertAsc(_, _)
InsertAsc(sorted, e) ==
    IF sorted = <<>> THEN <<e>>
    ELSE IF Head(sorted).modified <= e.modified
         THEN <<Head(sorted)>> \o InsertAsc(Tail(sorted), e)
    ELSE <<e>> \o sorted

\* sorted(..., key=modified, reverse=True): stable, equal keys keep their order
RECURSIVE InsertDesc(_, _)
InsertDesc(sorted, e) ==
    IF sorted = <<>> THEN <<e>>
    ELSE IF Head(sorted).modified >= e.modified
         THEN <<Head(sorted)>> \o InsertDesc(Tail(sorted), e)
    ELSE <<e>> \o sorted

RECURSIVE SortDesc(_, _)
SortDesc(entries, acc) ==
    IF entries = <<>> THEN acc
    ELSE SortDesc(Tail(entries), InsertDesc(acc, Head(entries)))

ListedFiles(pattern, file_type, rev) ==
    LET base_dir == get_working_directory
        patterns == TypePatterns(file_type, pattern)
        all_files ==
            ScanDir(RootFiles(base_dir), patterns, "current")
              \o (IF base_dir \in r_workspace
                  THEN ScanDir(WorkspaceFiles(base_dir, rev), patterns, "workspace")
                  ELSE <<>>)
    IN  SortDesc(Unique(all_files, <<>>), <<>>)

\* rev: the order in which the upload directory yields its files
list_files(pattern, file_type, rev) ==
    LET args == [pattern |-> pattern, file_type |-> file_type]
        patterns == TypePatterns(file_type, pattern)
        sorted_files == ListedFiles(pattern, file_type, rev)
    IN  /\ call' =
            IF \E i \in 1..Len(patterns) : patterns[i] = <<>>
            THEN \* glob("") raises ValueError; the handler answers
                 Returned("list_files", args,
                          [success |-> FALSE, files |-> <<>>, count |-> 0], <<>>, 0)
            ELSE Returned("list_files", args,
                          [success |-> TRUE, files |-> sorted_files,
                           count |-> Len(sorted_files)], <<>>, 0)
        /\ UNCHANGED <<MOUNTED_DIRECTORY, r_workspace, uploaded, tempFiles, now>>

(***************************************************************************)
(* Captured interpreter output is a sequence of tokens: the markers the    *)
(* scripts print, "sp" and "nl" for a blank and a line end, and words.     *)
(***************************************************************************)
\* `marker in text`
HasToken(text, marker) == \E i \in 1..Len(text) : text[i] = marker

Whitespace == {"sp", "nl"}

RECURSIVE LStrip(_)
LStrip(text) ==
    IF text # <<>> /\ Head(text) \in Whitespace THEN LStrip(Tail(text)) ELSE text

Strip(text) == Reverse(LStrip(Reverse(LStrip(text))))

\* text.split(sep): the pieces between the occurrences of sep
RECURSIVE SplitAt(_, _, _)
SplitAt(text, sep, piece) ==
    IF text = <<>> THEN <<piece>>
    ELSE IF Head(text) = sep THEN <<piece>> \o SplitAt(Tail(text), sep, <<>>)
    ELSE SplitAt(Tail(text), sep, Append(piece, Head(text)))

Split(text, sep) == SplitAt(text, sep, <<>>)

\* text.split(marker)[1].split("\\n")[0].strip(): the separator of the second
\* split is a backslash followed by n, the token "\\n", not the line end "nl"
FieldAfter(text, marker) == Strip(Split(Split(text, marker)[2], "\\n")[1])

\* what a subprocess.run of Rscript gives: its output, or the exception
ProcResult(kind, rc, stdout) == [kind |-> kind, rc |-> rc, stdout |-> stdout]

(***************************************************************************)
(* file_info                                                               *)
(***************************************************************************)
\* the file a name denotes, searched in the order of lines 411-422: the
\* path itself when absolute, the workspace root, the upload subdirectory
FindFile(filename) ==
    LET base_dir == get_working_directory
        root == RootFiles(base_dir)
    IN  IF filename.abs
        THEN IF filename.path = NotesFile
             THEN Some([name |-> <<"n", ".", "t", "x", "t">>,
                        file |-> [bytes |-> [len |-> 2, tag |-> "notes"], mtime |-> 0],
                        at |-> "absolute"])
             ELSE None
        ELSE IF \E i \in 1..Len(root) : root[i].name = filename.name
        THEN LET i == CHOOSE i \in 1..Len(root) : root[i].name = filename.name
             IN  Some([name |-> filename.name, file |-> root[i].file, at |-> "current"])
        ELSE IF <<base_dir, filename.name>> \in DOMAIN uploaded
        THEN Some([name |-> filename.name, file |-> uploaded[<<base_dir, filename.name>>],
                   at |-> "workspace"])
        ELSE None

ExcelSuffixes == { <<".", "x", "l", "s", "x">>, <<".", "x", "l", "s">> }

\* lines 464-478: the details of the first sheet, each read from the
\* interpreter's output when its marker is there
ExcelField(proc, marker) ==
    IF HasToken(proc.stdout, marker) THEN Some(FieldAfter(proc.stdout, marker)) ELSE None

ExcelInfo(proc) ==
    IF proc.kind # "exit" THEN [excel_info |-> "Could not read Excel file details"]
    ELSE IF proc.rc # 0 THEN [none |-> TRUE]
    ELSE [excel_sheets |-> ExcelField(proc, "SHEETS:"),
          rows |-> ExcelField(proc, "ROWS:"),
          columns |-> ExcelField(proc, "COLS:"),
          column_names |-> ExcelField(proc, "COLNAMES:")]

file_info(filename, proc) ==
    LET args == [filename |-> filename]
        found == FindFile(filename)
        excel == found # None /\ Lower(Suffix(found[1].name)) \in ExcelSuffixes
    IN  /\ call' =
            IF found = None
            THEN Returned("file_info", args,
                          [success |-> FALSE, message |-> "File not found"], <<>>, 0)
            ELSE Returned("file_info", args,
                          [success |-> TRUE,
                           size_bytes |-> found[1].file.bytes.len,
                           extension |-> Suffix(found[1].name),
                           found_in |-> found[1].at,
                           additional_info |->
                               IF excel THEN ExcelInfo(proc) ELSE [none |-> TRUE]],
                          IF excel THEN <<[cmd |-> "Rscript", timeout |-> 10]>> ELSE <<>>,
                          0)
        /\ UNCHANGED <<MOUNTED_DIRECTORY, r_workspace, uploaded, tempFiles, now>>

(***************************************************************************)
(* install_r_package                                                       *)
(***************************************************************************)
AlnumChars == {"g", "p", "l", "o", "t", "a", "b", "1", "2"}

RemoveChar(str, c) == SelectSeq(str, LAMBDA x : x # c)

\* str.isalnum(): not empty and every character a letter or a digit
IsAlnum(str) == str # <<>> /\ \A i \in 1..Len(str) : str[i] \in AlnumChars

\* (mutant) only the empty name is refused
InvalidPackageNameEmpty(package_name) == package_name = <<>>

\* the test of line 818
InvalidPackageName(package_name) ==
    package_name = <<>> \/ ~IsAlnum(RemoveChar(RemoveChar(package_name, "."), "_"))

\* stdout.split("Version:")[1].strip() when the marker is there, else ""
VersionIn(stdout) ==
    IF HasToken(stdout, "Version:") THEN Strip(Split(stdout, "Version:")[2]) ELSE <<>>

InstallFail(args, msg, procs) ==
    Returned("install_r_package", args, [success |-> FALSE, message |-> msg], procs, 0)

\* the answer to the install invocation, lines 899-948
InstallAnswer(args, install, procs) ==
    IF install.kind = "timeout"
    THEN InstallFail(args, "Installation timed out (5 minutes)", procs)
    ELSE IF install.kind # "exit" THEN InstallFail(args, "Unexpected error", procs)
    ELSE IF HasToken(install.stdout, "SUCCESS")
    THEN Returned("install_r_package", args,
                  [success |-> TRUE, message |-> "Package installed successfully",
                   version |-> VersionIn(install.stdout)], procs, 0)
    ELSE IF HasToken(install.stdout, "ERROR:")
    THEN InstallFail(args, "Installation failed", procs)
    ELSE InstallFail(args, "Installation failed for unknown reason", procs)

\* probe, install: what the two invocations of the interpreter give
install_r_package(package_name, version, force_reinstall, probe, install) ==
    LET args == [package_name |-> package_name, version |-> version,
                 force_reinstall |-> force_reinstall, probe |-> probe,
                 install |-> install]
        probeRun == [cmd |-> "Rscript", script |-> "probe", timeout |-> 10]
        installRun == [cmd |-> "Rscript",
                       script |-> IF version # <<>> THEN "install_version"
                                  ELSE "install.packages",
                       timeout |-> 300]
    IN  /\ call' =
            IF InvalidPackageName(package_name)
            THEN InstallFail(args, "Invalid package name", <<>>)
            ELSE IF force_reinstall THEN InstallAnswer(args, install, <<installRun>>)
            ELSE IF probe.kind = "timeout"
            THEN InstallFail(args, "Installation timed out (5 minutes)", <<probeRun>>)
            ELSE IF probe.kind # "exit"
            THEN InstallFail(args, "Unexpected error", <<probeRun>>)
            ELSE IF HasToken(probe.stdout, "ALREADY_INSTALLED")
            THEN Returned("install_r_package", args,
                          [success |-> TRUE, message |-> "Package already installed",
                           version |-> VersionIn(probe.stdout)], <<probeRun>>, 0)
            ELSE InstallAnswer(args, install, <<probeRun, installRun>>)
        /\ UNCHANGED <<MOUNTED_DIRECTORY, r_workspace, uploaded, tempFiles, now>>

(***************************************************************************)
(* list_r_packages                                                         *)
(***************************************************************************)
NoInfo == [name |-> None, version |-> None, title |-> None]

\* the loop over the lines of one chunk, lines 1012-1018
RECURSIVE ParseLines(_, _)
ParseLines(lines, info) ==
    IF lines = <<>> THEN info
    ELSE LET line == Head(lines)
         IN  ParseLines(Tail(lines),
                IF HasToken(line, "PACKAGE:")
                THEN [info EXCEPT !.name = Some(Strip(Split(line, "PACKAGE:")[2]))]
                ELSE IF HasToken(line, "VERSION:")
                THEN [info EXCEPT !.version = Some(Strip(Split(line, "VERSION:")[2]))]
                ELSE IF HasToken(line, "TITLE:")
                THEN [info EXCEPT !.title = Some(Strip(Split(line, "TITLE:")[2]))]
                ELSE info)

\* the loop over the chunks, lines 1009-1021; a chunk is split into lines at
\* "\\n", a backslash followed by n
RECURSIVE ParseChunks(_)
ParseChunks(chunks) ==
    IF chunks = <<>> THEN <<>>
    ELSE LET chunk == Head(chunks)
             info == ParseLines(Split(Strip(chunk), "\\n"), NoInfo)
         IN  (IF HasToken(chunk, "PACKAGE:") /\ info.name # None /\ info.name # Some(<<>>)
              THEN <<info>> ELSE <<>>)
                \o ParseChunks(Tail(chunks))

ParsePackages(stdout) ==
    IF HasToken(stdout, "PACKAGE:") THEN ParseChunks(Split(stdout, "---")) ELSE <<>>

list_r_packages(installed_only, pattern, proc) ==
    LET args == [installed_only |-> installed_only, pattern |-> pattern, proc |-> proc]
        run == <<[cmd |-> "Rscript", timeout |-> 30]>>
        packages == ParsePackages(proc.stdout)
    IN  /\ call' =
            IF proc.kind # "exit"
            THEN Returned("list_r_packages", args,
                          [success |-> FALSE, packages |-> <<>>, count |-> 0], run, 0)
            ELSE IF HasToken(proc.stdout, "NO_PACKAGES")
            THEN Returned("list_r_packages", args,
                          [success |-> TRUE, packages |-> <<>>, count |-> 0], run, 0)
            ELSE Returned("list_r_packages", args,
                          [success |-> TRUE, packages |-> packages,
                           count |-> Len(packages)], run, 0)
        /\ UNCHANGED <<MOUNTED_DIRECTORY, r_workspace, uploaded, tempFiles, now>>

(***************************************************************************)
(* The execution backends.  What the interpreter, the container runtime    *)
(* and the script do is an outcome chosen by the environment:              *)
(*   kind      "exit", "timeout", "notfound", "oserror" for the local      *)
(*             subprocess; "ok", "container_error", "image_not_found",     *)
(*             "docker_exception", "no_daemon", "unexpected" for docker;   *)
(*   rc, stdout, stderr   what the process or container reported;          *)
(*   gone      the script removed its own script file while it ran;        *)
(*   artifact  the script saved a plot at the path bound to output_file.   *)
(***************************************************************************)
Text(t) == [text |-> t, n |-> 0]
Empty == Text("")

Outcome(kind, rc, stdout, stderr, gone, artifact) ==
    [kind |-> kind, rc |-> rc, stdout |-> stdout, stderr |-> stderr,
     gone |-> gone, artifact |-> artifact]

Tuple(stdout, stderr, returncode) ==
    [raised |-> "none", msg |-> "", stdout |-> stdout, stderr |-> stderr,
     returncode |-> returncode]

Raise(exc, msg) ==
    [raised |-> exc, msg |-> msg, stdout |-> Empty, stderr |-> Empty, returncode |-> 0]

\* not code.strip()
Blank(code) == \A i \in 1..Len(code) : code[i] \in {" ", "\t", "\n"}

\* (mutant) a timeout is reported with the exit status of a killed process
LocalResultKilled(outcome, timeout) ==
    CASE outcome.kind = "exit" -> Tuple(outcome.stdout, outcome.stderr, outcome.rc)
      [] outcome.kind = "timeout" -> Tuple(outcome.stdout, outcome.stderr, -9)
      [] outcome.kind = "notfound" -> Tuple(Empty, Text("R is not installed or not in PATH"), -1)
      [] OTHER -> Raise("OSError", "")

\* what execute_r_script_local returns or raises, lines 576-588
LocalResult(outcome, timeout) ==
    CASE outcome.kind = "exit" -> Tuple(outcome.stdout, outcome.stderr, outcome.rc)
      [] outcome.kind = "timeout" ->
            Tuple(Empty, [text |-> "Script execution timed out after", n |-> timeout], -1)
      [] outcome.kind = "notfound" ->
            Tuple(Empty, Text("R is not installed or not in PATH"), -1)
      [] OTHER -> Raise("OSError", "")

\* (mutant) the script file is removed only after a run that ended by itself
UnlinkAfterExit(files, script_path, outcome) ==
    IF outcome.kind = "exit" THEN files \ {script_path} ELSE files

\* the finally clause, lines 589-593: os.unlink, an OSError is ignored
Unlink(files, script_path, outcome) == files \ {script_path}

ScriptFile == "tmp.R"
GgplotDir == "/tmp/ggplot-1"
DockerDir == "/tmp/tmp-1"
container_temp_dir == "/tmp/r_work"

execute_r_script_local(r_code, timeout, outcome, files) ==
    LET created == files \cup {ScriptFile}
        ran == IF outcome.gone THEN created \ {ScriptFile} ELSE created
    IN  [res |-> LocalResult(outcome, timeout),
         files |-> Unlink(ran, ScriptFile, outcome),
         procs |-> <<[cmd |-> "Rscript", timeout |-> timeout]>>,
         temps |-> 1]

\* (mutant) a failed container is reported with a fixed exit status
ContainerResultFlat(outcome) ==
    CASE outcome.kind = "ok" -> Tuple(outcome.stdout, Empty, 0)
      [] outcome.kind = "container_error" ->
            Tuple(Empty,
                  IF outcome.stderr # Empty THEN outcome.stderr ELSE Text("ContainerError"),
                  1)
      [] outcome.kind = "image_not_found" -> Raise("ImageNotFound", "")
      [] outcome.kind = "docker_exception" -> Raise("DockerException", "")
      [] OTHER -> Raise("Exception", "")

\* _run_docker_container, lines 550-563
ContainerResult(outcome) ==
    CASE outcome.kind = "ok" -> Tuple(outcome.stdout, Empty, 0)
      [] outcome.kind = "container_error" ->
            Tuple(Empty,
                  IF outcome.stderr # Empty THEN outcome.stderr ELSE Text("ContainerError"),
                  outcome.rc)
      [] outcome.kind = "image_not_found" -> Raise("ImageNotFound", "")
      [] outcome.kind = "docker_exception" -> Raise("DockerException", "")
      [] OTHER -> Raise("Exception", "")

\* (mutant) a missing image is passed on as the library raised it
DockerRaiseImage(res) ==
    CASE res.raised = "none" -> res
      [] res.raised = "ImageNotFound" -> res
      [] res.raised = "DockerException" -> Raise("RuntimeError", "Docker execution failed")
      [] OTHER -> Raise("RuntimeError", "Unexpected error during Docker execution")

\* the handlers of execute_r_script_docker, lines 533-538
DockerRaise(res) ==
    CASE res.raised = "none" -> res
      [] res.raised = "ImageNotFound" ->
            Raise("RuntimeError", "Docker image 'r-base:latest' not found")
      [] res.raised = "DockerException" -> Raise("RuntimeError", "Docker execution failed")
      [] OTHER -> Raise("RuntimeError", "Unexpected error during Docker execution")

\* (mutant) the temporary directory is kept when the container run raises
DockerCleanupOnReturn(files, dir, res) ==
    IF res.raised = "none" THEN files \ {dir} ELSE files

\* leaving the `with tempfile.TemporaryDirectory()` block, lines 525-529
DockerCleanup(files, dir, res) == files \ {dir}

\* host_temp_dir is None or Some(directory)
execute_r_script_docker(r_code, host_temp_dir, outcome, files) ==
    IF outcome.kind = "no_daemon"
    THEN [res |-> DockerRaise(Raise("DockerException", "")), files |-> files,
          procs |-> <<>>, temps |-> 0]
    ELSE LET res == DockerRaise(ContainerResult(outcome))
             run == <<[cmd |-> "docker",
                       bind |-> IF host_temp_dir # None THEN host_temp_dir[1] ELSE DockerDir]>>
         IN  IF host_temp_dir # None
             THEN [res |-> res, files |-> files, procs |-> run, temps |-> 0]
             ELSE [res |-> res,
                   files |-> DockerCleanup(files \cup {DockerDir}, DockerDir, res),
                   procs |-> run, temps |-> 1]

(***************************************************************************)
(* execute_r_script                                                        *)
(***************************************************************************)
\* the composed script: the preamble names the working directory, the user's
\* code follows verbatim
EnhancedCode(code) == [base_dir |-> get_working_directory, code |-> code]

TimeoutInvalid(timeout) == timeout < 1 \/ timeout > 300

\* (mutant) success is reported whenever the backend returned
ScriptRecordAlwaysOk(res) ==
    [success |-> TRUE, returncode |-> res.returncode,
     stdout |-> res.stdout, stderr |-> res.stderr]

\* the record of lines 781-787
ScriptRecord(res) ==
    [success |-> res.returncode = 0, returncode |-> res.returncode,
     stdout |-> res.stdout, stderr |-> res.stderr]

execute_r_script(code, timeout, use_docker, outcome) ==
    LET args == [code |-> code, timeout |-> timeout, use_docker |-> use_docker,
                 outcome |-> outcome]
        run == IF use_docker
               THEN execute_r_script_docker(EnhancedCode(code), None, outcome, tempFiles)
               ELSE execute_r_script_local(EnhancedCode(code), timeout, outcome, tempFiles)
    IN  IF Blank(code) \/ TimeoutInvalid(timeout)
        THEN /\ call' = Raised("execute_r_script", args, "ValueError", <<>>, 0)
             /\ UNCHANGED <<MOUNTED_DIRECTORY, r_workspace, uploaded, tempFiles, now>>
        ELSE /\ tempFiles' = run.files
             /\ call' =
                  CASE run.res.raised = "none" ->
                          Returned("execute_r_script", args, ScriptRecord(run.res),
                                   run.procs, run.temps)
                    [] run.res.raised = "RuntimeError" ->
                          Returned("execute_r_script", args,
                                   [success |-> FALSE, returncode |-> -1,
                                    stdout |-> Empty, stderr |-> Text(run.res.msg)],
                                   run.procs, run.temps)
                    [] OTHER ->
                          Raised("execute_r_script", args, run.res.raised,
                                 run.procs, run.temps)
             /\ UNCHANGED <<MOUNTED_DIRECTORY, r_workspace, uploaded, now>>

(***************************************************************************)
(* render_ggplot                                                           *)
(***************************************************************************)
\* (mutant) the lower bounds are tested with <=
RenderInvalidStrict(code, width, height, resolution) ==
    \/ Blank(code)
    \/ width <= 100 \/ width > 5000
    \/ height <= 100 \/ height > 5000
    \/ resolution <= 72 \/ resolution > 600

\* the argument checks, lines 619-629
RenderInvalid(code, width, height, resolution) ==
    \/ Blank(code)
    \/ width < 100 \/ width > 5000
    \/ height < 100 \/ height > 5000
    \/ resolution < 72 \/ resolution > 600

mime_types == [png |-> "image/png", jpeg |-> "image/jpeg",
               pdf |-> "application/pdf", svg |-> "image/svg+xml"]

\* base64.b64encode(...).decode('utf-8'): the text that decodes to the bytes
b64encode(bytes) == [valid |-> TRUE, data |-> bytes]

PlotBytes == [len |-> 9, tag |-> "plot"]

\* the directory of output_file as written into the script, line 658: the
\* host's temporary directory
OutputDirInScript(temp_dir) == temp_dir

\* (mutant) the output file is not looked for
ArtifactAssumed(use_docker, outcome, temp_dir) == TRUE

\* output_path.exists(), line 683: the plot the script saved is on the host
\* when the script ran on the host, or when it ran in the container and saved
\* under the directory the temporary directory is bound to
ArtifactOnHost(use_docker, outcome, temp_dir) ==
    /\ outcome.artifact
    /\ use_docker => OutputDirInScript(temp_dir) = container_temp_dir

\* leaving the `with tempfile.TemporaryDirectory(prefix="ggplot-")` block
RenderCleanup(files, temp_dir) == files \ {temp_dir}

render_ggplot(code, output_type, width, height, resolution, use_docker, outcome) ==
    LET args == [code |-> code, output_type |-> output_type, width |-> width,
                 height |-> height, resolution |-> resolution,
                 use_docker |-> use_docker, outcome |-> outcome]
        temp_dir == GgplotDir
        r_script == [base_dir |-> get_working_directory, code |-> code,
                     output_file |-> <<OutputDirInScript(temp_dir), output_type>>]
        run == IF use_docker
               THEN execute_r_script_docker(r_script, Some(temp_dir), outcome,
                                            tempFiles \cup {temp_dir})
               ELSE execute_r_script_local(r_script, 60, outcome,
                                           tempFiles \cup {temp_dir})
        temps == run.temps + 1
    IN  IF RenderInvalid(code, width, height, resolution)
        THEN /\ call' = Raised("render_ggplot", args, "ValueError", <<>>, 0)
             /\ UNCHANGED <<MOUNTED_DIRECTORY, r_workspace, uploaded, tempFiles, now>>
        ELSE /\ tempFiles' = RenderCleanup(run.files, temp_dir)
             /\ call' =
                  IF run.res.raised # "none"
                  THEN Raised("render_ggplot", args, run.res.raised, run.procs, temps)
                  ELSE IF run.res.returncode # 0
                  THEN Raised("render_ggplot", args, "RuntimeError", run.procs, temps)
                  ELSE IF ~ArtifactOnHost(use_docker, outcome, temp_dir)
                  THEN Raised("render_ggplot", args, "RuntimeError", run.procs, temps)
                  ELSE Returned("render_ggplot", args,
                                [type |-> "image",
                                 format |-> output_type,
                                 data |-> b64encode(PlotBytes),
                                 mime_type |-> mime_types[output_type],
                                 width |-> width, height |-> height,
                                 resolution |-> resolution],
                                run.procs, temps)
             /\ UNCHANGED <<MOUNTED_DIRECTORY, r_workspace, uploaded, now>>

Init ==
    /\ MOUNTED_DIRECTORY = None
    /\ r_workspace \in SUBSET {DataDir}
    /\ uploaded = <<>>
    /\ tempFiles = {}
    /\ now = 0
    /\ call = Returned("start", [x |-> 0], [success |-> TRUE], <<>>, 0)
    /\ done = <<>>
    /\ threads = <<>>

\* a request that overlaps no other and is not kept in the history
Alone == UNCHANGED <<done, threads>>

\* the paths handed to mount_directory
PathInputs ==
    { DataDir, ReadOnlyDir, SecretDir, NotesFile,
      [abs |-> TRUE, parts |-> <<"missing">>],
      [abs |-> TRUE, parts |-> <<"srv", "..", "data">>],
      [abs |-> FALSE, parts |-> <<"..", "data">>],
      [abs |-> FALSE, parts |-> <<"missing">>] }

Mount == \E p \in PathInputs : mount_directory(p) /\ Alone

\* the payloads and the file names handed to upload_file
PayloadSmall == Payload(TRUE, 3, "small")
PayloadLimit == Payload(TRUE, max_size, "limit")
PayloadOver == Payload(TRUE, max_size + 1, "over")
PayloadBad == Payload(FALSE, 0, "bad")
Payloads == {PayloadSmall, PayloadLimit, PayloadOver, PayloadBad}

UpperB == <<"a", "_", "b", ".", "C", "S", "V">>
Filenames ==
    { <<>>, CsvA, UpperB,
      <<"a", ":", "b", ".", "C", "S", "V">>,
      <<".", ".", "/", "a", ".", "c", "s", "v">>,
      <<"d", "/", ":", ".", "c", "s", "v">>,
      <<"d", "\\", "a", ".", "c", "s", "v">>,
      <<"a", ".", ".", "c", "s", "v">>,
      <<"a", ".", "e", "x", "e">>,
      <<".", "c", "s", "v">> }

Upload ==
    \E c \in Payloads, f \in Filenames, o \in BOOLEAN : upload_file(c, f, o) /\ Alone


Tick == /\ now < MaxTime
        /\ now' = now + 1
        /\ UNCHANGED <<MOUNTED_DIRECTORY, r_workspace, uploaded, tempFiles, call>>

(***************************************************************************)
(* The file gateway alone, with every payload and file name.               *)
(***************************************************************************)
MountForUpload == \E p \in {DataDir, ReadOnlyDir} : mount_directory(p) /\ Alone

NextUpload == MountForUpload \/ Upload

SpecUpload == Init /\ [][NextUpload]_vars
(***************************************************************************)
(* The execution tools alone, with every argument on and around its bounds *)
(* and every outcome of the backends.                                      *)
(***************************************************************************)
MaxCodeLen == 1

RECURSIVE SeqsUpTo(_, _)
SeqsUpTo(S, n) ==
    IF n = 0 THEN {<<>>}
    ELSE LET shorter == SeqsUpTo(S, n - 1)
         IN  shorter \cup {Append(q, c) : q \in shorter, c \in S}

Codes == SeqsUpTo({" ", "x"}, MaxCodeLen)

LocalOutcomes ==
    { Outcome("exit", 0, Text("out"), Empty, FALSE, TRUE),
      Outcome("exit", 0, Text("out"), Text("warn"), TRUE, FALSE),
      Outcome("exit", 1, Text("out"), Text("err"), FALSE, TRUE),
      Outcome("exit", -9, Empty, Empty, FALSE, FALSE),
      Outcome("timeout", 0, Text("out"), Empty, FALSE, FALSE),
      Outcome("notfound", 0, Empty, Empty, FALSE, FALSE),
      Outcome("oserror", 0, Empty, Empty, FALSE, FALSE) }

DockerOutcomes ==
    { Outcome("ok", 0, Text("out"), Empty, FALSE, TRUE),
      Outcome("ok", 0, Text("out"), Empty, FALSE, FALSE),
      Outcome("container_error", 1, Text("out"), Text("err"), FALSE, FALSE),
      Outcome("container_error", 2, Empty, Empty, FALSE, TRUE),
      Outcome("image_not_found", 0, Empty, Empty, FALSE, FALSE),
      Outcome("docker_exception", 0, Empty, Empty, FALSE, FALSE),
      Outcome("no_daemon", 0, Empty, Empty, FALSE, FALSE),
      Outcome("unexpected", 0, Empty, Empty, FALSE, FALSE) }

Outcomes(use_docker) == IF use_docker THEN DockerOutcomes ELSE LocalOutcomes

Timeouts == {0, 1, 300, 301}

\* <<width, height, resolution>>: one argument at a time on and around its bounds
Dims ==
    {<<w, 600, 96>> : w \in {99, 100, 5000, 5001}}
        \cup {<<800, h, 96>> : h \in {99, 100, 5000, 5001}}
        \cup {<<800, 600, r>> : r \in {71, 72, 600, 601}}
        \cup {<<800, 600, 96>>}

OutputFormats == {"png", "jpeg", "pdf", "svg"}

Execute ==
    \E code \in Codes, timeout \in Timeouts, use_docker \in BOOLEAN :
        \E outcome \in Outcomes(use_docker) :
            execute_r_script(code, timeout, use_docker, outcome) /\ Alone

Render ==
    \E code \in {c \in Codes : Len(c) = 1}, d \in Dims, use_docker \in BOOLEAN :
        \E output_type \in IF d = <<800, 600, 96>> THEN OutputFormats ELSE {"png"} :
            \E outcome \in Outcomes(use_docker) :
                render_ggplot(code, output_type, d[1], d[2], d[3], use_docker, outcome) /\ Alone

MountForExec == mount_directory(DataDir) /\ Alone

NextExec == MountForExec \/ Execute \/ Render

SpecExec == Init /\ [][NextExec]_vars

(***************************************************************************)
(* The package tools alone, with every name and every interpreter output.  *)
(***************************************************************************)
PackageNames == { <<>>, <<".">>, <<"g", "g", "p", "l", "o", "t", "2">>,
                  <<"a", ".", "b", "_", "1">>, <<"a", ";", "b">> }

ProbeProcs ==
    { ProcResult("exit", 0, <<"ALREADY_INSTALLED", "nl", "Version:", "sp", "3.4", "sp", "nl">>),
      ProcResult("exit", 0, <<"NOT_INSTALLED", "nl">>),
      ProcResult("timeout", 0, <<>>),
      ProcResult("notfound", 0, <<>>) }

InstallProcs ==
    { ProcResult("exit", 0, <<"SUCCESS", "nl", "Version:", "sp", "3.5", "sp", "nl">>),
      ProcResult("exit", 0, <<"FAILED", "nl">>),
      ProcResult("exit", 0, <<"ERROR:", "sp", "unavailable", "sp", "nl">>),
      ProcResult("timeout", 0, <<>>),
      ProcResult("notfound", 0, <<>>) }

Install ==
    \E package_name \in PackageNames, version \in {<<>>, <<"1", ".", "0">>},
       force_reinstall \in BOOLEAN, probe \in ProbeProcs, install \in InstallProcs :
        install_r_package(package_name, version, force_reinstall, probe, install) /\ Alone

PackageLine(marker, value) == <<marker, "sp", value, "sp", "nl">>
PackageBlock(name, ver, title) ==
    PackageLine("PACKAGE:", name) \o PackageLine("VERSION:", ver)
        \o PackageLine("TITLE:", title) \o <<"---", "nl">>

ListProcs ==
    { ProcResult("exit", 0, <<"NO_PACKAGES", "nl">>),
      ProcResult("exit", 0, PackageBlock("ggplot2", "3.4", "Graphics")),
      ProcResult("exit", 0, PackageBlock("ggplot2", "3.4", "Graphics")
                              \o PackageBlock("dplyr", "1.1", "Data")),
      ProcResult("exit", 0, <<"AVAILABLE_PACKAGES:", "sp", "2", "sp", "nl">>),
      ProcResult("timeout", 0, <<>>),
      ProcResult("notfound", 0, <<>>) }

ListPackages ==
    \E installed_only \in BOOLEAN, pattern \in {<<>>, <<"g", "g">>}, proc \in ListProcs :
        list_r_packages(installed_only, pattern, proc) /\ Alone

NextPackages == Install \/ ListPackages

SpecPackages == Init /\ [][NextPackages]_vars

(***************************************************************************)
(* The specification of the whole server: every tool, each with a few      *)
(* arguments.                                                              *)
(***************************************************************************)
TraversalCsv == <<".", ".", "/", "a", ".", "c", "s", "v">>

UploadFew ==
    \E c \in {PayloadSmall, PayloadBad}, f \in {CsvA, TraversalCsv}, o \in BOOLEAN :
        upload_file(c, f, o) /\ Alone

ListFiles ==
    \E pattern \in {<<"*">>, Star(<<".", "c", "s", "v">>), <<>>},
       file_type \in {"all", "csv", "excel"}, rev \in BOOLEAN :
        list_files(pattern, file_type, rev) /\ Alone

ExcelProcs ==
    { ProcResult("exit", 0, <<"SHEETS:", "sp", "S1", "sp", "nl", "ROWS:", "sp", "3", "sp", "nl">>),
      ProcResult("exit", 1, <<>>),
      ProcResult("timeout", 0, <<>>) }

FileInfo ==
    \E filename \in { [abs |-> FALSE, name |-> CsvA, path |-> Cwd],
                      [abs |-> FALSE, name |-> XlsS, path |-> Cwd],
                      [abs |-> TRUE, name |-> <<>>, path |-> NotesFile],
                      [abs |-> TRUE, name |-> <<>>, path |-> DataDir] },
       proc \in ExcelProcs :
        file_info(filename, proc) /\ Alone

ExecuteFew ==
    \E code \in {<<" ">>, <<"x">>}, timeout \in {0, 60}, use_docker \in BOOLEAN :
        \E outcome \in Outcomes(use_docker) :
            execute_r_script(code, timeout, use_docker, outcome) /\ Alone

RenderFew ==
    \E code \in {<<>>, <<"x">>}, width \in {50, 800}, use_docker \in BOOLEAN :
        \E outcome \in Outcomes(use_docker) :
            render_ggplot(code, "png", width, 600, 96, use_docker, outcome) /\ Alone

InstallFew ==
    \E package_name \in {<<"g", "g", "p", "l", "o", "t", "2">>, <<"a", ";", "b">>},
       force_reinstall \in BOOLEAN,
       probe \in {p \in ProbeProcs : p.kind # "notfound"},
       install \in {p \in InstallProcs : p.kind # "timeout" /\ ~HasToken(p.stdout, "FAILED")} :
        install_r_package(package_name, <<>>, force_reinstall, probe, install) /\ Alone

ListPackagesFew ==
    \E installed_only \in BOOLEAN, proc \in ListProcs :
        list_r_packages(installed_only, <<>>, proc) /\ Alone

Next ==
    \/ Mount
    \/ UploadFew
    \/ ListFiles
    \/ FileInfo
    \/ ExecuteFew
    \/ RenderFew
    \/ InstallFew
    \/ ListPackagesFew

Spec == Init /\ [][Next]_vars

(***************************************************************************)
(* Properties of the file gateway.                                         *)
(***************************************************************************)
\* a step of upload_file: the tool that ran last is upload_file and the clock
\* stood still
UploadStep == call'.op = "upload_file" /\ now' = now

HasChar(s, c) == \E i \in 1..Len(s) : s[i] = c
HasDotDot(s) == \E i \in 1..Len(s) - 1 : s[i] = "." /\ s[i + 1] = "."
BadName(f) == f = <<>> \/ HasDotDot(f) \/ HasChar(f, "/") \/ HasChar(f, "\\")

\* the name a file is stored under: each of <>:"|?* becomes _
StoredName(f) ==
    [i \in 1..Len(f) |->
        IF f[i] \in {"<", ">", ":", "\"", "|", "?", "*"} THEN "_" ELSE f[i]]

SizeMessage == "File too large. Maximum size: 10MB"
TenMiB == 10485760

\* C3: an upload whose filename is empty or contains "..", "/" or "\" returns
\* success=false with the path-traversal message, names the filename as it was
\* given, and changes neither the stored files nor the directories, whatever
\* the content and the overwrite flag.
C3_TraversalRejected ==
    [][ (UploadStep /\ BadName(call'.args.filename)) =>
            /\ call'.raised = "none"
            /\ call'.ret.success = FALSE
            /\ call'.ret.message = "Invalid filename. No path traversal allowed."
            /\ call'.ret.filename = call'.args.filename
            /\ uploaded' = uploaded
            /\ r_workspace' = r_workspace
            /\ tempFiles' = tempFiles ]_vars

\* a traversal name that sanitization would alter, sent with a good payload and
\* overwrite=true, has been refused
C3_Witness ==
    /\ call.op = "upload_file"
    /\ HasChar(call.args.filename, "/")
    /\ StoredName(call.args.filename) # call.args.filename
    /\ call.args.file_content = PayloadSmall
    /\ call.args.overwrite
    /\ ~call.ret.success

\* C4 as stated: every payload that decodes to more than 10 MiB is answered
\* with success=false and the size error, and no file is written.
C4_Original ==
    [][ (UploadStep /\ call'.args.file_content.valid
                    /\ call'.args.file_content.data.len > TenMiB) =>
            /\ call'.ret.success = FALSE
            /\ call'.ret.message = SizeMessage
            /\ uploaded' = uploaded ]_vars

\* C4 (amended): a payload that decodes to more than 10 MiB is always answered
\* with success=false and no stored file changes, also with overwrite=true on
\* an existing file; the answer is the size error when the filename passes the
\* name and extension checks; a payload of exactly 10 MiB never gets the size
\* error.
C4_OversizeRejected ==
    [][ UploadStep =>
          LET c == call'.args.file_content
              f == call'.args.filename
          IN  /\ (c.valid /\ c.data.len > TenMiB) =>
                    /\ call'.raised = "none"
                    /\ call'.ret.success = FALSE
                    /\ uploaded' = uploaded
                    /\ (~BadName(f) /\ Lower(Suffix(StoredName(f))) \in allowed_extensions)
                          => call'.ret.message = SizeMessage
              /\ (c.valid /\ c.data.len = TenMiB) => call'.ret.message # SizeMessage ]_vars

\* an oversize payload with overwrite=true was refused for its size while a
\* file of that name is stored
C4_Witness ==
    /\ call.op = "upload_file"
    /\ call.args.file_content = PayloadOver
    /\ call.args.overwrite
    /\ call.ret.message = SizeMessage
    /\ <<get_working_directory, StoredName(call.args.filename)>> \in DOMAIN uploaded

\* C5 as stated: after a successful upload the bytes are stored under the
\* filename as given; on an existing file an upload with overwrite=false fails
\* and changes nothing, and one with overwrite=true succeeds and stores its
\* payload.
C5_Original ==
    [][ UploadStep =>
          LET c == call'.args.file_content
              given == <<get_working_directory, call'.args.filename>>
              kept == <<get_working_directory, StoredName(call'.args.filename)>>
          IN  /\ call'.ret.success =>
                    /\ given \in DOMAIN uploaded'
                    /\ uploaded'[given].bytes = c.data
              /\ (kept \in DOMAIN uploaded /\ ~call'.args.overwrite) =>
                    ~call'.ret.success /\ uploaded' = uploaded
              /\ (kept \in DOMAIN uploaded /\ call'.args.overwrite) =>
                    call'.ret.success /\ uploaded'[kept].bytes = c.data ]_vars

\* C5 (amended): the file is stored under the sanitized filename, and the
\* overwriting upload succeeds when its payload decodes to at most 10 MiB.
C5_StoredBytes ==
    [][ UploadStep =>
          LET c == call'.args.file_content
              kept == <<get_working_directory, StoredName(call'.args.filename)>>
          IN  /\ call'.ret.success =>
                    /\ kept \in DOMAIN uploaded'
                    /\ uploaded'[kept].bytes = c.data
                    /\ \A q \in DOMAIN uploaded \ {kept} :
                          q \in DOMAIN uploaded' /\ uploaded'[q] = uploaded[q]
              /\ (kept \in DOMAIN uploaded /\ ~call'.args.overwrite) =>
                    ~call'.ret.success /\ uploaded' = uploaded
              /\ (kept \in DOMAIN uploaded /\ call'.args.overwrite
                    /\ c.valid /\ c.data.len <= TenMiB) =>
                    call'.ret.success /\ uploaded'[kept].bytes = c.data ]_vars

\* a second upload without overwrite was refused and the file still holds the
\* bytes of the first, which differ from the payload just sent
C5_Witness ==
    /\ call.op = "upload_file"
    /\ ~call.args.overwrite
    /\ call.ret.message = "File already exists. Use overwrite=true to replace it."
    /\ call.args.file_content.valid
    /\ LET kept == <<get_working_directory, StoredName(call.args.filename)>>
       IN  /\ kept \in DOMAIN uploaded
           /\ uploaded[kept].bytes # call.args.file_content.data
(***************************************************************************)
(* Properties of the workspace reference.                                  *)
(***************************************************************************)
MountStep == call'.op = "mount_directory"

ReadableDirs == {d \in HostDirs : ReadAccess(d)}

\* C1 as stated: mounting an absolute, existing, readable directory d succeeds
\* and get_working_directory() then returns d; no other tool changes what it
\* returns.
C1_Original ==
    [][ /\ (MountStep /\ call'.args.directory_path.abs
                      /\ Resolve(call'.args.directory_path) \in ReadableDirs) =>
              /\ call'.ret.success
              /\ get_working_directory' = call'.args.directory_path
        /\ ~MountStep => get_working_directory' = get_working_directory ]_vars

\* C1 (amended): get_working_directory() returns the current directory at the
\* start; mounting an absolute path that resolves to an existing, readable
\* directory in which r_workspace exists or can be created succeeds, and
\* get_working_directory() then returns the resolved path; no other tool
\* changes what it returns.
C1_MountThenResolve ==
    /\ get_working_directory = Cwd
    /\ [][ /\ (MountStep /\ call'.args.directory_path.abs
                         /\ Resolve(call'.args.directory_path) \in ReadableDirs
                         /\ (\/ Resolve(call'.args.directory_path) \in r_workspace
                             \/ WriteAccess(Resolve(call'.args.directory_path)))) =>
                 /\ call'.ret.success
                 /\ get_working_directory' = Resolve(call'.args.directory_path)
           /\ ~MountStep => get_working_directory' = get_working_directory ]_vars

\* another tool has run after a mount and the mounted directory is still the
\* working directory
C1_Witness ==
    /\ call.op \in {"upload_file", "list_files", "file_info", "execute_r_script",
                    "render_ggplot", "install_r_package", "list_r_packages"}
    /\ MOUNTED_DIRECTORY = Some(DataDir)
    /\ get_working_directory = DataDir

\* C2: mount_directory(p) answers success=false and leaves the workspace
\* reference as it was whenever p is not absolute or does not name an existing,
\* readable directory.
C2_Original ==
    [][ (MountStep /\ (\/ ~call'.args.directory_path.abs
                       \/ Resolve(call'.args.directory_path) \notin ReadableDirs)) =>
            /\ call'.ret.success = FALSE
            /\ MOUNTED_DIRECTORY' = MOUNTED_DIRECTORY ]_vars

(***************************************************************************)
(* Properties of the tool boundary and of the execution tools.             *)
(***************************************************************************)
CheckedTools == {"mount_directory", "upload_file", "list_files", "file_info",
                 "install_r_package", "list_r_packages"}

TimeoutOk(timeout) == 1 <= timeout /\ timeout <= 300
DimsOk(a) ==
    /\ 100 <= a.width /\ a.width <= 5000
    /\ 100 <= a.height /\ a.height <= 5000
    /\ 72 <= a.resolution /\ a.resolution <= 600

ScriptArgsOk == ~Blank(call.args.code) /\ TimeoutOk(call.args.timeout)
RenderArgsOk == ~Blank(call.args.code) /\ DimsOk(call.args)

\* C6 as stated: every invocation of every tool ends by returning a record.
C6_Original == call.raised = "none"

\* C6 (amended): the six tools other than render_ggplot and execute_r_script
\* always return a record; execute_r_script returns a record for every result
\* of its backend, a RuntimeError of the backend included, and raises only a
\* ValueError for invalid arguments or an error other than RuntimeError that
\* leaves the local backend; render_ggplot raises for invalid arguments, a
\* failed backend, a non-zero exit status and a missing artifact.
C6_Boundary ==
    /\ call.op \in CheckedTools => call.raised = "none"
    /\ call.op = "execute_r_script" =>
          /\ ~ScriptArgsOk => call.raised = "ValueError"
          /\ (ScriptArgsOk /\ call.args.outcome.kind # "oserror") => call.raised = "none"
          /\ (ScriptArgsOk /\ call.args.outcome.kind = "oserror") =>
                call.raised = "OSError"
    /\ call.op = "render_ggplot" =>
          /\ ~RenderArgsOk => call.raised = "ValueError"
          /\ (RenderArgsOk /\ call.raised = "none") =>
                call.args.outcome.kind \in {"exit", "ok"} /\ call.args.outcome.rc = 0
          /\ (RenderArgsOk /\ call.raised # "none") =>
                call.raised \in {"RuntimeError", "OSError"}

\* a missing container image reached execute_r_script as a RuntimeError and
\* came back as a failure record
C6_Witness ==
    /\ call.op = "execute_r_script"
    /\ call.args.use_docker
    /\ call.args.outcome.kind = "image_not_found"
    /\ call.raised = "none"
    /\ call.ret.success = FALSE

\* C7: invalid arguments of render_ggplot and execute_r_script raise a
\* ValueError with no temporary file created and no subprocess or container
\* started, for both backends; arguments on the bounds pass the validation.
C7_ValidationFirst ==
    /\ call.op = "render_ggplot" =>
          IF RenderArgsOk
          THEN call.raised # "ValueError" /\ call.temps >= 1
          ELSE call.raised = "ValueError" /\ call.temps = 0 /\ call.procs = <<>>
    /\ call.op = "execute_r_script" =>
          IF ScriptArgsOk
          THEN call.raised # "ValueError"
          ELSE call.raised = "ValueError" /\ call.temps = 0 /\ call.procs = <<>>
    /\ call.raised = "ValueError" => tempFiles = {}

\* a width just under the range was refused for the container backend before
\* anything was created or started
C7_Witness ==
    /\ call.op = "render_ggplot"
    /\ call.args.width = 99
    /\ call.args.use_docker
    /\ ~Blank(call.args.code)
    /\ call.raised = "ValueError"
    /\ call.temps = 0

ScriptRan == call.op = "execute_r_script" /\ ScriptArgsOk

BackendFailed ==
    call.args.outcome.kind \in
        {"image_not_found", "docker_exception", "no_daemon", "unexpected"}

\* what C8 says of every backend result but that of a failed container
C8_Common ==
    /\ call.raised = "none" => (call.ret.success <=> call.ret.returncode = 0)
    /\ (~call.args.use_docker /\ call.args.outcome.kind = "exit") =>
          /\ call.raised = "none"
          /\ call.ret.stdout = call.args.outcome.stdout
          /\ call.ret.stderr = call.args.outcome.stderr
          /\ call.ret.returncode = call.args.outcome.rc
    /\ (call.args.use_docker /\ call.args.outcome.kind = "ok") =>
          /\ call.raised = "none"
          /\ call.ret.stdout = call.args.outcome.stdout
          /\ call.ret.returncode = 0
          /\ call.ret.success
    /\ (call.args.use_docker /\ BackendFailed) =>
          /\ call.raised = "none"
          /\ call.ret.success = FALSE
          /\ call.ret.returncode = -1

ContainerFailed == call.args.use_docker /\ call.args.outcome.kind = "container_error"

\* C8 as stated: a container that exits non-zero is reported with its own
\* stderr and its own exit code.
C8_Original ==
    ScriptRan =>
        /\ C8_Common
        /\ ContainerFailed =>
              /\ call.ret.stderr = call.args.outcome.stderr
              /\ call.ret.returncode = call.args.outcome.rc

\* C8 (amended): a container that exits non-zero is reported with its own exit
\* code, and with its own stderr when it wrote any; when its stderr is empty
\* the text of the container error is reported in its place.
C8_PassThrough ==
    ScriptRan =>
        /\ C8_Common
        /\ ContainerFailed =>
              /\ call.raised = "none"
              /\ call.ret.returncode = call.args.outcome.rc
              /\ call.ret.success = FALSE
              /\ IF call.args.outcome.stderr # Empty
                 THEN call.ret.stderr = call.args.outcome.stderr
                 ELSE call.ret.stderr # Empty

\* a container that exited with status 1 was reported with its stderr
C8_Witness ==
    /\ ScriptRan
    /\ ContainerFailed
    /\ call.ret.returncode = 1
    /\ call.ret.stderr = Text("err")

\* C9: with the local backend a timeout gives success=false, returncode=-1, an
\* empty stdout and a stderr that names the timeout; a missing interpreter
\* gives the same status with the installation hint; the interpreter is
\* started once.
C9_TimeoutTerminal ==
    (ScriptRan /\ ~call.args.use_docker) =>
        /\ call.args.outcome.kind = "timeout" =>
              /\ call.raised = "none"
              /\ call.ret = [success |-> FALSE, returncode |-> -1, stdout |-> Empty,
                             stderr |-> [text |-> "Script execution timed out after",
                                         n |-> call.args.timeout]]
              /\ Len(call.procs) = 1
        /\ call.args.outcome.kind = "notfound" =>
              /\ call.raised = "none"
              /\ call.ret = [success |-> FALSE, returncode |-> -1, stdout |-> Empty,
                             stderr |-> Text("R is not installed or not in PATH")]
              /\ Len(call.procs) = 1

\* a script given one second ran into the timeout
C9_Witness ==
    /\ ScriptRan
    /\ ~call.args.use_docker
    /\ call.args.timeout = 1
    /\ call.args.outcome.kind = "timeout"
    /\ call.ret.returncode = -1

\* C10: after every invocation no temporary script file and no temporary
\* directory is left.
C10_NoTempLeft == tempFiles = {}

\* a local run that timed out created its script file, and the file is gone
C10_Witness ==
    /\ call.op = "execute_r_script"
    /\ ~call.args.use_docker
    /\ call.args.outcome.kind = "timeout"
    /\ call.temps = 1
    /\ tempFiles = {}

(***************************************************************************)
(* Uploads into the empty directory /work, with the clock running between  *)
(* them, and listings of it.  done keeps the uploads that succeeded.       *)
(***************************************************************************)
MaxUploads == 2

ColonB == <<"a", ":", "b", ".", "C", "S", "V">>

MountWork == mount_directory(WorkDir) /\ Alone

UploadLogged ==
    /\ MOUNTED_DIRECTORY = Some(WorkDir)
    /\ Len(done) < MaxUploads
    /\ \E c \in {PayloadSmall, PayloadLimit}, f \in {CsvA, UpperB, ColonB},
          o \in BOOLEAN :
          /\ upload_file(c, f, o)
          /\ done' = IF call'.ret.success
                     THEN Append(done, [filename |-> f, bytes |-> c.data])
                     ELSE done
    /\ UNCHANGED threads

TickList == Tick /\ Alone

ListDefault ==
    /\ \E rev \in BOOLEAN : list_files(<<"*">>, "all", rev)
    /\ Alone

NextList == MountWork \/ UploadLogged \/ TickList \/ ListDefault

SpecList == Init /\ [][NextList]_vars

(***************************************************************************)
(* Properties of the listing.                                              *)
(***************************************************************************)
\* list_files() with its default arguments answered last, after exactly two
\* uploads succeeded into the mounted, otherwise empty directory
ListedAfterTwo ==
    /\ call.op = "list_files"
    /\ call.args = [pattern |-> <<"*">>, file_type |-> "all"]
    /\ MOUNTED_DIRECTORY = Some(WorkDir)
    /\ Len(done) = 2
    /\ done[1].filename # done[2].filename

\* the listing has one entry for the upload u, with the size of its bytes
ListsUpload(u) ==
    \E i \in 1..Len(call.ret.files) :
        /\ call.ret.files[i].name = StoredName(u.filename)
        /\ call.ret.files[i].size_bytes = u.bytes.len
        /\ \A j \in 1..Len(call.ret.files) :
              call.ret.files[j].name = call.ret.files[i].name => j = i

TwoEntries ==
    /\ call.raised = "none"
    /\ call.ret.success
    /\ call.ret.count = 2
    /\ Len(call.ret.files) = 2
    /\ ListsUpload(done[1])
    /\ ListsUpload(done[2])

\* the time of the last write of a listed file, in ticks of the host clock
WrittenAt(e) == uploaded[<<WorkDir, e.name>>].mtime

\* C11 as stated: after two successful uploads with two different filename
\* arguments into an otherwise empty workspace, list_files() returns count 2
\* and exactly two entries, one per upload with the size of its bytes, ordered
\* by modification time descending.
C11_Original ==
    ListedAfterTwo =>
        /\ TwoEntries
        /\ WrittenAt(call.ret.files[1]) >= WrittenAt(call.ret.files[2])

\* C11: when the two filename arguments are stored under different names
\* (they still differ once each of <>:"|?* is replaced by _), list_files()
\* returns count 2 and exactly two entries, one per upload with the size of
\* its bytes, ordered by the modification time in whole seconds, descending.
C11_TwoUploadsListed ==
    (ListedAfterTwo /\ StoredName(done[1].filename) # StoredName(done[2].filename)) =>
        /\ TwoEntries
        /\ call.ret.files[1].modified >= call.ret.files[2].modified
        /\ \A i \in 1..2 :
              call.ret.files[i].modified = WrittenAt(call.ret.files[i]) \div TicksPerSecond

\* two uploads a second apart, the older one yielded last by the directory,
\* and the newer one listed first
C11_Witness ==
    /\ ListedAfterTwo
    /\ StoredName(done[1].filename) # StoredName(done[2].filename)
    /\ call.ret.count = 2
    /\ call.ret.files[1].name = StoredName(done[2].filename)
    /\ call.ret.files[1].modified > call.ret.files[2].modified
    /\ call.ret.files[1].size_bytes # call.ret.files[2].size_bytes

(***************************************************************************)
(* Properties of the plot renderer.                                        *)
(***************************************************************************)
Rendered == call.op = "render_ggplot" /\ RenderArgsOk

\* the exit status the backend reported, None when it reported none
ExitStatus ==
    LET o == call.args.outcome
    IN  IF call.args.use_docker
        THEN CASE o.kind = "ok" -> Some(0)
               [] o.kind = "container_error" -> Some(o.rc)
               [] OTHER -> None
        ELSE CASE o.kind = "exit" -> Some(o.rc)
               [] o.kind \in {"timeout", "notfound"} -> Some(-1)
               [] OTHER -> None

MimeOf(t) ==
    CASE t = "png" -> "image/png"
      [] t = "jpeg" -> "image/jpeg"
      [] t = "pdf" -> "application/pdf"
      [] t = "svg" -> "image/svg+xml"

\* C12: render_ggplot returns a result only when the backend exit status is
\* 0 and the script saved the artifact; the result then holds the base64
\* text of the artifact's bytes, the format, the MIME type of the fixed table
\* and the width, height and resolution given; a non-zero exit status or a
\* missing artifact raises a RuntimeError and returns nothing, and the local
\* backend with status 0 and the artifact saved returns the result.
C12_RenderResult ==
    Rendered =>
        /\ call.raised = "none" =>
              /\ ExitStatus = Some(0)
              /\ call.args.outcome.artifact
              /\ b64decode(call.ret.data) = Some(PlotBytes)
              /\ call.ret = [type |-> "image",
                             format |-> call.args.output_type,
                             data |-> call.ret.data,
                             mime_type |-> MimeOf(call.args.output_type),
                             width |-> call.args.width,
                             height |-> call.args.height,
                             resolution |-> call.args.resolution]
        /\ (ExitStatus \notin {Some(0), None} \/ (ExitStatus = Some(0) /\ ~call.args.outcome.artifact)) =>
              /\ call.raised = "RuntimeError"
              /\ call.ret = [success |-> FALSE]
        /\ (~call.args.use_docker /\ ExitStatus = Some(0) /\ call.args.outcome.artifact) =>
              call.raised = "none"

\* an svg plot rendered on the host
C12_Witness ==
    /\ Rendered
    /\ call.raised = "none"
    /\ call.args.output_type = "svg"
    /\ call.ret.mime_type = "image/svg+xml"
    /\ call.ret.data = b64encode(PlotBytes)

(***************************************************************************)
(* Uploads into /data, which holds a.csv itself, and listings of it with   *)
(* every file type and two patterns.                                       *)
(***************************************************************************)
MountData == mount_directory(DataDir) /\ Alone

UploadData ==
    /\ MOUNTED_DIRECTORY = Some(DataDir)
    /\ \E f \in {CsvA, XlsS}, o \in BOOLEAN : upload_file(PayloadSmall, f, o)
    /\ Alone

ListData ==
    /\ \E pattern \in {<<"*">>, Star(<<".", "x", "l", "s">>)},
          file_type \in {"all", "excel", "csv", "text", "other"}, rev \in BOOLEAN :
          list_files(pattern, file_type, rev)
    /\ Alone

NextListData == MountData \/ UploadData \/ TickList \/ ListData

SpecListData == Init /\ [][NextListData]_vars

\* list_files answered last, on /data
ListedData ==
    /\ call.op = "list_files"
    /\ MOUNTED_DIRECTORY = Some(DataDir)

EndsWith(name, ext) ==
    /\ Len(name) >= Len(ext)
    /\ \A i \in 1..Len(ext) : name[Len(name) - Len(ext) + i] = ext[i]

\* the endings a listing selects: those of the fixed group of its file type,
\* otherwise what follows the leading "*" of its pattern
Endings ==
    CASE call.args.file_type = "excel" -> {<<".", "x", "l", "s", "x">>, <<".", "x", "l", "s">>}
      [] call.args.file_type = "csv" -> {<<".", "c", "s", "v">>, <<".", "t", "s", "v">>}
      [] call.args.file_type = "text" -> {<<".", "t", "x", "t">>}
      [] OTHER -> {Tail(call.args.pattern)}

InUpload(name) == <<DataDir, name>> \in DOMAIN uploaded

\* the names of the regular files of /data and of /data/r_workspace
NamesOfData == {CsvA} \cup {k[2] : k \in {k \in DOMAIN uploaded : k[1] = DataDir}}

\* the time of the last write of the file an entry stands for, in ticks
LastWrite(e) == IF InUpload(e.name) THEN uploaded[<<DataDir, e.name>>].mtime ELSE 0

\* what C13 says of the entries but for their order
C13_Entries ==
    LET files == call.ret.files
    IN  /\ call.raised = "none"
        /\ call.ret.success
        /\ call.ret.count = Len(files)
        /\ \A i, j \in 1..Len(files) : files[i].name = files[j].name => i = j
        /\ {files[i].name : i \in 1..Len(files)} =
              {n \in NamesOfData : \E ext \in Endings : EndsWith(n, ext)}
        /\ \A i \in 1..Len(files) :
              IF InUpload(files[i].name)
              THEN /\ files[i].directory = "workspace"
                   /\ files[i].size_bytes = uploaded[<<DataDir, files[i].name>>].bytes.len
              ELSE /\ files[i].directory = "current"
                   /\ files[i].size_bytes = 7

\* C13 as stated: one entry per file name of the root and of r_workspace
\* that the pattern (or the fixed group of the file type) selects, the one of
\* r_workspace when both hold the name, count the number of entries, and the
\* entries sorted by modification time descending.
C13_Original ==
    ListedData =>
        /\ C13_Entries
        /\ \A i, j \in 1..Len(call.ret.files) :
              i < j => LastWrite(call.ret.files[i]) >= LastWrite(call.ret.files[j])

\* C13: one entry per selected file name, the one of r_workspace when both
\* directories hold the name, count the number of entries, and the entries
\* sorted by their modified field, the modification time in whole seconds,
\* descending.
C13_DedupSorted ==
    ListedData =>
        /\ C13_Entries
        /\ \A i \in 1..Len(call.ret.files) :
              call.ret.files[i].modified = LastWrite(call.ret.files[i]) \div TicksPerSecond
        /\ \A i, j \in 1..Len(call.ret.files) :
              i < j => call.ret.files[i].modified >= call.ret.files[j].modified

\* a.csv lies in /data and in /data/r_workspace and s.xls was uploaded too:
\* the csv group lists the uploaded a.csv alone, whatever the pattern
C13_Witness ==
    /\ ListedData
    /\ call.args = [pattern |-> Star(<<".", "x", "l", "s">>), file_type |-> "csv"]
    /\ InUpload(CsvA)
    /\ InUpload(XlsS)
    /\ call.ret.count = 1
    /\ call.ret.files[1].name = CsvA
    /\ call.ret.files[1].directory = "workspace"
    /\ call.ret.files[1].size_bytes = 3

(***************************************************************************)
(* Properties of the package tools.                                        *)
(***************************************************************************)
InstallCalled == call.op = "install_r_package"

\* a package name of letters, digits, dots and underscores with at least one
\* letter or digit
NameAccepted(n) ==
    /\ \A i \in 1..Len(n) :
          n[i] \in {"g", "p", "l", "o", "t", "a", "b", "1", "2", ".", "_"}
    /\ \E i \in 1..Len(n) : n[i] \notin {".", "_"}

IsProbe(run) == run.script = "probe"
IsInstall(run) == run.script \in {"install_version", "install.packages"}

ProbeSaysInstalled ==
    /\ call.args.probe.kind = "exit"
    /\ \E i \in 1..Len(call.args.probe.stdout) :
          call.args.probe.stdout[i] = "ALREADY_INSTALLED"

InstallSaysSuccess ==
    /\ call.args.install.kind = "exit"
    /\ \E i \in 1..Len(call.args.install.stdout) :
          call.args.install.stdout[i] = "SUCCESS"

\* C14: install_r_package starts no interpreter for an invalid package name;
\* without force_reinstall the probe is the first interpreter started and an
\* install invocation can only follow it, and after a probe that reports the
\* package installed the call returns success with the version the probe
\* printed and starts no install; with force_reinstall no probe is started
\* and the install invocation is the only one; success=true is returned only
\* after such a probe or after an install whose output has the success marker.
C14_ProbeBeforeInstall ==
    InstallCalled =>
        LET runs == call.procs
            name == call.args.package_name
        IN  /\ call.raised = "none"
            /\ ~NameAccepted(name) => (runs = <<>> /\ ~call.ret.success)
            /\ (NameAccepted(name) /\ ~call.args.force_reinstall) =>
                  /\ Len(runs) >= 1
                  /\ IsProbe(runs[1])
                  /\ \A i \in 2..Len(runs) : IsInstall(runs[i])
                  /\ Len(runs) <= 2
                  /\ ProbeSaysInstalled =>
                        /\ call.ret.success
                        /\ call.ret.version = <<"3.4">>
                        /\ runs = <<runs[1]>>
            /\ (NameAccepted(name) /\ call.args.force_reinstall) =>
                  /\ Len(runs) = 1
                  /\ IsInstall(runs[1])
            /\ call.ret.success =>
                  \/ (Len(runs) = 1 /\ IsProbe(runs[1]) /\ ProbeSaysInstalled)
                  \/ (IsInstall(runs[Len(runs)]) /\ InstallSaysSuccess)

\* the probe found the package: success with its version, and no install
C14_Witness ==
    /\ InstallCalled
    /\ NameAccepted(call.args.package_name)
    /\ ~call.args.force_reinstall
    /\ ProbeSaysInstalled
    /\ InstallSaysSuccess
    /\ call.ret.success
    /\ call.ret.version = <<"3.4">>
    /\ Len(call.procs) = 1

\* the entry the three fields of one record should give
PackageEntry(name, ver, title) ==
    [name |-> Some(<<name>>), version |-> Some(<<ver>>), title |-> Some(<<title>>)]

ListedPackages == call.op = "list_r_packages" /\ call.args.proc.kind = "exit"

\* C15: interpreter output made of n records, each a PACKAGE line, a VERSION
\* line and a TITLE line followed by a "---" separator, gives exactly n
\* entries, entry i with the name, version and title of record i, and
\* count = n; output with the no-packages marker gives the empty list and
\* count 0.
C15_Original ==
    ListedPackages =>
        /\ call.args.proc.stdout = <<"NO_PACKAGES", "nl">> =>
              (call.ret.packages = <<>> /\ call.ret.count = 0)
        /\ call.args.proc.stdout = PackageBlock("ggplot2", "3.4", "Graphics") =>
              /\ call.ret.count = 1
              /\ call.ret.packages = <<PackageEntry("ggplot2", "3.4", "Graphics")>>
        /\ call.args.proc.stdout = PackageBlock("ggplot2", "3.4", "Graphics")
                                     \o PackageBlock("dplyr", "1.1", "Data") =>
              /\ call.ret.count = 2
              /\ call.ret.packages = <<PackageEntry("ggplot2", "3.4", "Graphics"),
                                       PackageEntry("dplyr", "1.1", "Data")>>

(***************************************************************************)
(* Two mount_directory requests that overlap.  Each runs the statements of *)
(* mount_directory in order; between two statements the other may run.     *)
(* The frame of a request holds its argument, the resolved path, the       *)
(* statement it is at, and its place among the assignments made so far.    *)
(***************************************************************************)
Threads == {1, 2}

Idle(t) == t \notin DOMAIN threads

At(t, op, pc) ==
    /\ t \in DOMAIN threads
    /\ threads[t].op = op
    /\ threads[t].pc = pc

Goto(t, frame) == threads' = (t :> frame) @@ threads

\* lines 125-156: the path is resolved and checked
MountEnter(t, directory_path) ==
    LET mount_path == Resolve(directory_path)
        msg == MountCheck(directory_path, mount_path)
        frame == [op |-> "mount_directory", directory_path |-> directory_path,
                  mount_path |-> mount_path, stamp |-> 0]
    IN  /\ Idle(t)
        /\ IF msg # ""
           THEN /\ Goto(t, frame @@ [pc |-> "done",
                                     ret |-> [success |-> FALSE, message |-> msg]])
                /\ call' = Returned("mount_directory",
                                    [directory_path |-> directory_path],
                                    [success |-> FALSE, message |-> msg], <<>>, 0)
           ELSE /\ Goto(t, frame @@ [pc |-> "assign", ret |-> [success |-> FALSE]])
                /\ call' = call
        /\ UNCHANGED <<MOUNTED_DIRECTORY, r_workspace, uploaded, tempFiles, now, done>>

\* line 159
MountAssigns(t) ==
    LET made == Cardinality({u \in DOMAIN threads : threads[u].stamp > 0})
    IN  /\ At(t, "mount_directory", "assign")
        /\ MOUNTED_DIRECTORY' = MountAssign(threads[t].mount_path)
        /\ Goto(t, [threads[t] EXCEPT !.pc = "mkdir", !.stamp = made + 1])
        /\ UNCHANGED <<r_workspace, uploaded, tempFiles, now, call, done>>

\* lines 162-163; a failing mkdir is answered by the handler of line 181
MountMkdir(t) ==
    LET mount_path == threads[t].mount_path
        failed == [success |-> FALSE, message |-> "Failed to mount directory"]
    IN  /\ At(t, "mount_directory", "mkdir")
        /\ IF MkdirOk(mount_path)
           THEN /\ r_workspace' = r_workspace \cup {mount_path}
                /\ Goto(t, [threads[t] EXCEPT !.pc = "glob"])
                /\ call' = call
           ELSE /\ r_workspace' = r_workspace
                /\ Goto(t, [threads[t] EXCEPT !.pc = "done", !.ret = failed])
                /\ call' = Returned("mount_directory",
                                    [directory_path |-> threads[t].directory_path],
                                    failed, <<>>, 0)
        /\ UNCHANGED <<MOUNTED_DIRECTORY, uploaded, tempFiles, now, done>>

\* lines 166-179: the directory is listed and the record returned
MountReturn(t) ==
    LET ret == MountedRecord(threads[t].mount_path)
    IN  /\ At(t, "mount_directory", "glob")
        /\ Goto(t, [threads[t] EXCEPT !.pc = "done", !.ret = ret])
        /\ call' = Returned("mount_directory",
                            [directory_path |-> threads[t].directory_path],
                            ret, <<>>, 0)
        /\ UNCHANGED <<MOUNTED_DIRECTORY, r_workspace, uploaded, tempFiles, now, done>>

MountRaceEnter ==
    \E t \in Threads, p \in {DataDir, WorkDir, ReadOnlyDir, NotesFile} : MountEnter(t, p)
MountRaceAssign == \E t \in Threads : MountAssigns(t)
MountRaceMkdir == \E t \in Threads : MountMkdir(t)
MountRaceReturn == \E t \in Threads : MountReturn(t)

NextMountRace ==
    MountRaceEnter \/ MountRaceAssign \/ MountRaceMkdir \/ MountRaceReturn

SpecMountRace == Init /\ [][NextMountRace]_vars

(***************************************************************************)
(* Properties of overlapping mounts.                                       *)
(***************************************************************************)
\* a directory a mount can succeed on: it exists, can be read, and its
\* r_workspace subdirectory exists or can be created
ValidDir(d) ==
    /\ d \in HostDirs
    /\ ReadAccess(d)
    /\ (WriteAccess(d) \/ d \in r_workspace)

BothMountsDone ==
    /\ DOMAIN threads = Threads
    /\ \A t \in Threads : threads[t].op = "mount_directory" /\ threads[t].pc = "done"

\* C16: when two mount_directory calls on valid directories d1 and d2
\* overlap, in every interleaving both return success, the workspace
\* reference afterwards is the directory of the call that assigned last, and
\* r_workspace exists under both; in every intermediate state the workspace
\* reference is unset, d1 or d2.
C16_LastWriterWins ==
    (/\ \A t \in DOMAIN threads : threads[t].op = "mount_directory"
     /\ \A t \in DOMAIN threads : ValidDir(threads[t].mount_path)) =>
        /\ MOUNTED_DIRECTORY \in
              {None} \cup {Some(threads[t].mount_path) : t \in DOMAIN threads}
        /\ BothMountsDone =>
              /\ \A t \in Threads : threads[t].ret.success
              /\ \A t \in Threads : threads[t].mount_path \in r_workspace
              /\ \E t \in Threads :
                    /\ threads[t].stamp = 2
                    /\ MOUNTED_DIRECTORY = Some(threads[t].mount_path)

\* the call on /data assigned first and returned last; the reference is /work
C16_Witness ==
    /\ BothMountsDone
    /\ threads[1].mount_path = DataDir
    /\ threads[2].mount_path = WorkDir
    /\ threads[1].stamp = 1
    /\ threads[2].stamp = 2
    /\ call.args.directory_path = DataDir
    /\ call.ret.success
    /\ MOUNTED_DIRECTORY = Some(WorkDir)

\* C17: a mount_directory call that returns success=false leaves the
\* workspace reference exactly as it was before the call, also when it fails
\* after the path checks have passed; and whenever the workspace reference is
\* set, the r_workspace subdirectory exists under it.
C17_Original ==
    [][ /\ (MountStep /\ call'.ret.success = FALSE) =>
              MOUNTED_DIRECTORY' = MOUNTED_DIRECTORY
        /\ MOUNTED_DIRECTORY' # None => MOUNTED_DIRECTORY'[1] \in r_workspace' ]_vars

\* C18: with use_docker=true the temporary directory of render_ggplot is
\* bound into the container, and a script that ends with status 0 and saves
\* its plot at the output path written into it leaves the artifact where
\* render_ggplot looks for it: the call returns the encoded artifact as it
\* does with the local backend.
C18_Original ==
    (/\ Rendered
     /\ call.args.use_docker
     /\ call.args.outcome.kind = "ok"
     /\ call.args.outcome.artifact) =>
        /\ Len(call.procs) = 1
        /\ call.procs[1].bind = GgplotDir
        /\ call.raised = "none"
        /\ call.ret = [type |-> "image",
                       format |-> call.args.output_type,
                       data |-> b64encode(PlotBytes),
                       mime_type |-> MimeOf(call.args.output_type),
                       width |-> call.args.width,
                       height |-> call.args.height,
                       resolution |-> call.args.resolution]

(***************************************************************************)
(* Two upload_file requests that overlap.  A request validates its         *)
(* arguments and creates r_workspace, tests whether the file exists, opens *)
(* it for writing (which empties it), writes its bytes from the start of   *)
(* the file, and reads the size back for the record it returns.            *)
(***************************************************************************)
EmptyBytes == [len |-> 0, tag |-> "empty"]

\* bytes written from the start of a file that holds old: what lay beyond
\* them stays
Overlay(old, new) ==
    IF old.len > new.len THEN [len |-> old.len, tag |-> "mixed"] ELSE new

\* the message of the first failing check of lines 217-262, "" when all pass
UploadCheck(file_content, filename) ==
    LET clean == Sanitize(filename)
        decoded == b64decode(file_content)
    IN  IF TraversalName(filename) THEN "Invalid filename. No path traversal allowed."
        ELSE IF Lower(Suffix(clean)) \notin allowed_extensions THEN "File type not allowed"
        ELSE IF decoded = None THEN "Invalid base64 content"
        ELSE IF TooLarge(decoded[1].len) THEN "File too large. Maximum size: 10MB"
        ELSE ""

Finish(t, ret) ==
    /\ Goto(t, [threads[t] EXCEPT !.pc = "done", !.ret = ret])
    /\ call' = Returned("upload_file", threads[t].args, ret, <<>>, 0)

\* lines 217-267: the checks, the working directory and the mkdir
UploadEnter(t, file_content, filename, overwrite) ==
    LET args == [file_content |-> file_content, filename |-> filename,
                 overwrite |-> overwrite]
        clean == Sanitize(filename)
        base_dir == get_working_directory
        msg == UploadCheck(file_content, filename)
        failed == IF msg # "" THEN msg
                  ELSE IF ~MkdirOk(base_dir) THEN "Upload failed" ELSE ""
        frame == [op |-> "upload_file", args |-> args, stamp |-> 0,
                  file_path |-> <<base_dir, clean>>]
    IN  /\ Idle(t)
        /\ IF failed # ""
           THEN /\ Goto(t, frame @@ [pc |-> "done",
                                     ret |-> [success |-> FALSE, message |-> failed]])
                /\ call' = UploadFail(args, IF TraversalName(filename)
                                            THEN filename ELSE clean, failed)
                /\ r_workspace' = r_workspace
           ELSE /\ Goto(t, frame @@ [pc |-> "exists", ret |-> [success |-> FALSE]])
                /\ call' = call
                /\ r_workspace' = r_workspace \cup {base_dir}
        /\ UNCHANGED <<MOUNTED_DIRECTORY, uploaded, tempFiles, now, done>>

\* line 273
UploadExists(t) ==
    /\ At(t, "upload_file", "exists")
    /\ IF Refused(threads[t].file_path, threads[t].args.overwrite)
       THEN Finish(t, [success |-> FALSE,
                       message |-> "File already exists. Use overwrite=true to replace it."])
       ELSE Goto(t, [threads[t] EXCEPT !.pc = "open"]) /\ call' = call
    /\ UNCHANGED <<MOUNTED_DIRECTORY, r_workspace, uploaded, tempFiles, now, done>>

\* line 282, Path.write_bytes: open(mode="wb") creates or empties the file
UploadOpen(t) ==
    /\ At(t, "upload_file", "open")
    /\ uploaded' = write_bytes(uploaded, threads[t].file_path, EmptyBytes)
    /\ Goto(t, [threads[t] EXCEPT !.pc = "write"])
    /\ UNCHANGED <<MOUNTED_DIRECTORY, r_workspace, tempFiles, now, call, done>>

\* line 282, Path.write_bytes: the bytes are written and the file closed
UploadWrite(t) ==
    LET file_path == threads[t].file_path
        file_data == b64decode(threads[t].args.file_content)[1]
        made == Cardinality({u \in DOMAIN threads : threads[u].stamp > 0})
    IN  /\ At(t, "upload_file", "write")
        /\ uploaded' = write_bytes(uploaded, file_path,
                                   Overlay(uploaded[file_path].bytes, file_data))
        /\ Goto(t, [threads[t] EXCEPT !.pc = "stat", !.stamp = made + 1])
        /\ UNCHANGED <<MOUNTED_DIRECTORY, r_workspace, tempFiles, now, call, done>>

\* lines 285-307: the file is there; its size is read and the record returned
UploadReturn(t) ==
    /\ At(t, "upload_file", "stat")
    /\ Finish(t, [success |-> TRUE, message |-> "File uploaded successfully",
                  filename |-> threads[t].file_path[2],
                  size_bytes |-> uploaded[threads[t].file_path].bytes.len])
    /\ UNCHANGED <<MOUNTED_DIRECTORY, r_workspace, uploaded, tempFiles, now, done>>

UploadRaceEnter ==
    \E t \in Threads, c \in {PayloadSmall, PayloadLimit, PayloadBad},
       f \in {CsvA, UpperB}, o \in BOOLEAN : UploadEnter(t, c, f, o)
UploadRaceExists == \E t \in Threads : UploadExists(t)
UploadRaceOpen == \E t \in Threads : UploadOpen(t)
UploadRaceWrite == \E t \in Threads : UploadWrite(t)
UploadRaceReturn == \E t \in Threads : UploadReturn(t)

NextUploadRace ==
    \/ UploadRaceEnter
    \/ UploadRaceExists
    \/ UploadRaceOpen
    \/ UploadRaceWrite
    \/ UploadRaceReturn

SpecUploadRace == Init /\ [][NextUploadRace]_vars

(***************************************************************************)
(* Properties of overlapping uploads.                                      *)
(***************************************************************************)
\* two uploads of different bytes under the same filename, neither allowed
\* to overwrite, have both ended
SameNameUploadsDone ==
    /\ DOMAIN threads = Threads
    /\ \A t \in Threads : threads[t].op = "upload_file" /\ threads[t].pc = "done"
    /\ threads[1].args.filename = threads[2].args.filename
    /\ \A t \in Threads : ~threads[t].args.overwrite /\ threads[t].args.file_content.valid
    /\ threads[1].args.file_content # threads[2].args.file_content

\* C19: when two upload_file calls with the same filename, overwrite=false
\* and different contents overlap, in every interleaving of their existence
\* checks and writes at most one returns success=true, and the bytes stored
\* afterwards are those of the call that returned success.
C19_Original ==
    SameNameUploadsDone =>
        /\ ~(threads[1].ret.success /\ threads[2].ret.success)
        /\ \A t \in Threads :
              threads[t].ret.success =>
                  uploaded[threads[t].file_path].bytes = threads[t].args.file_content.data
====
